---- MODULE Spec2Model ----
(***************************************************************************)
(* Model of the Mata Sentry collector, src/server/server.js.               *)
(*                                                                         *)
(* Time is counted in minutes: the two durations of the program, the       *)
(* 5 * 60 * 1000 ms HOSTNAME_TIMEOUT and the 2 * 60 * 1000 ms freshness    *)
(* window of GET /nodes, are 5 and 2.  An ISO timestamp string             *)
(* (toISOString / new Date(s)) is the integer instant it denotes.          *)
(*                                                                         *)
(* A JS object is a function from its keys to their values.  A string the  *)
(* program looks into character by character (the hostname) is a tuple of  *)
(* one-character strings; any other string is a TLA+ string.               *)
(*                                                                         *)
(* The run starts with an empty data directory.  Code that runs between    *)
(* two awaits runs in one step, at one instant.  Bun.write is awaited: its *)
(* effect on the file falls at some moment between the call and the        *)
(* resumption of the caller, and the writes of two suspended handlers take *)
(* effect in either order.  A write is an open that truncates the file     *)
(* and then a write of the bytes from offset 0: nothing makes the two one  *)
(* step, and nothing keeps two writers of one file apart.                  *)
(***************************************************************************)
EXTENDS Integers, Sequences, FiniteSets, TLC

VARIABLES
    now,             \* the wall clock, new Date()
    files,           \* DATA_DIR: file name -> text of the file
    hostnameStatus,  \* the Map of line 13: hostname -> [lastUpdate, status]
    inflight,        \* the POST /submit handlers suspended at `await Bun.write`
    query,           \* the GET /nodes handler suspended at one of its awaits
    resp,            \* the response produced by the last step, if it produced one
    landed,          \* file name -> the request body whose write is in the file
    seen,            \* what DATA_DIR has held since the scan of the running query
    nsubmits         \* how many submissions have passed validation so far

vars == <<now, files, landed, seen, hostnameStatus, inflight, query, resp, nsubmits>>

----------------------------------------------------------------------------
(* Bounds of the model *)

MaxTime == 6        \* the clock stops here
MaxInflight == 2    \* submissions suspended at the same time
MaxSubmits == 2     \* submissions that pass validation in one run
MaxShort == 3       \* the clock of a short run stops here
MaxValid == 1       \* submissions that pass validation in a run with few of them

----------------------------------------------------------------------------
(* Program constants *)

HOSTNAME_TIMEOUT == 5
TWO_MINUTES == 2
SENTRY_SECRET == "S"

ServerHost == <<"s", "e", "r", "v", "e", "r">>

----------------------------------------------------------------------------
(* JS objects *)

Has(o, k) == k \in DOMAIN o

\* { k: v }: the spread left out
SpreadWithForgetsSpread(o, k, v) == [f \in {k} |-> v]

\* { ...o, k: v }
SpreadWith(o, k, v) == [f \in DOMAIN o \cup {k} |-> IF f = k THEN v ELSE o[f]]

\* the rest pattern keeping k
RestWithoutKeepsAll(o, k) == o

\* const { k, ...rest } = o
RestWithout(o, k) == [f \in DOMAIN o \ {k} |-> o[f]]

\* JSON.stringify(o, null, 2): the text, as the set of its "key": value members
JSONstringify(o) == {<<k, o[k]>> : k \in DOMAIN o}

\* JSON.parse(text)
JSONparse(text) ==
    [k \in {m[1] : m \in text} |-> (CHOOSE m \in text : m[1] = k)[2]]

\* the bytes a shorter text leaves of a longer one it is written over
Leftover(n) == <<"#tail", n>>

\* the length of a text, counted in members
TextLen(text) ==
    IF \E m \in text : m[1] = "#tail"
    THEN Cardinality(text) - 1 + (CHOOSE m \in text : m[1] = "#tail")[2]
    ELSE Cardinality(text)

\* JSON.parse throws a SyntaxError: the empty text, or bytes after the closing brace
ParseThrows(text) == text = {} \/ \E m \in text : m[1] = "#tail"

\* !data.sentry_secret: absent, or the empty string
NoSecret(o) == ~Has(o, "sentry_secret") \/ o.sentry_secret = ""

\* !data.hostname: absent, or the empty string
NoHost(o) == ~Has(o, "hostname") \/ o.hostname = <<>>

----------------------------------------------------------------------------
(* The requests of the model *)

HostA == <<"a">>
HostB1 == <<"b", ".">>
HostB2 == <<"b", "_">>

\* two different bodies for one hostname; the second one also names the fields
\* the collector sets itself
SameHost ==
    { [hostname |-> HostA, sentry_secret |-> "S", cpu |-> "x"],
      [hostname |-> HostA, sentry_secret |-> "S", gpu |-> "g",
       timestamp |-> <<"iso", 1>>, server_received_at |-> 0, is_online |-> TRUE] }

BadSecret ==
    { [hostname |-> HostA, sentry_secret |-> "W", cpu |-> "x"],
      [hostname |-> HostB1, cpu |-> "x"],
      [sentry_secret |-> ""] }

NoHostname ==
    { [sentry_secret |-> "S", cpu |-> "x"],
      [hostname |-> <<>>, sentry_secret |-> "S", cpu |-> "x"] }

Valid == { [hostname |-> HostA, sentry_secret |-> "S", cpu |-> "x"] }

Requests == Valid \cup BadSecret \cup NoHostname

\* an agent whose clock is far ahead of the collector's, an agent without clock
\* whose hostname has the same file name, and an agent whose clock is right
Skewed ==
    { [hostname |-> HostB1, sentry_secret |-> "S", timestamp |-> <<"iso", 9>>],
      [hostname |-> HostB2, sentry_secret |-> "S", cpu |-> "x"],
      [hostname |-> HostA, sentry_secret |-> "S", timestamp |-> <<"iso", 1>>] }

\* one body for each of three hostnames, two of which differ in one character that
\* is not of [a-zA-Z0-9-]
Hosts ==
    { [hostname |-> h, sentry_secret |-> "S", cpu |-> "x"] : h \in {HostA, HostB1, HostB2} }

----------------------------------------------------------------------------
(* File names *)

SafeChars == {"a", "b", "e", "r", "s", "v", "-"}

\* data.hostname.replace(/[^a-zA-Z0-9-]/g, '_')
Sanitize(h) == [i \in 1..Len(h) |-> IF h[i] \in SafeChars THEN h[i] ELSE "_"]

\* path.join(DATA_DIR, `node_${...}.json`)
FilePath(h) == <<"node_">> \o Sanitize(h) \o <<".json">>

----------------------------------------------------------------------------
(* The liveness map *)

\* the loop of lines 46-50 and 220-225
Stale(rec, t) == t - rec.lastUpdate > HOSTNAME_TIMEOUT

Cleanup(hs, t) == [h \in {x \in DOMAIN hs : ~Stale(hs[x], t)} |-> hs[h]]

Touch(hs, hostname, timestamp) ==
    [h \in DOMAIN hs \cup {hostname} |->
        IF h = hostname THEN [lastUpdate |-> timestamp, status |-> "online"]
        ELSE hs[h]]

\* the cleanup before the set
updateHostnameStatusCleanupFirst(hs, hostname, timestamp, t) ==
    Touch(Cleanup(hs, t), hostname, timestamp)

updateHostnameStatus(hs, hostname, timestamp, t) ==
    Cleanup(Touch(hs, hostname, timestamp), t)

----------------------------------------------------------------------------

(* GET /nodes: one stored snapshot as it is listed, lines 172-186 *)

\* new Date(nodeData.timestamp) > twoMinutesAgo; an invalid date compares false
DateAfter(v, t) == v[1] = "iso" /\ v[2] > t

\* the liveness map decides for a snapshot without timestamp
isOnlineWithFallback(nodeData, t) ==
    IF Has(nodeData, "timestamp")
    THEN DateAfter(nodeData.timestamp, t - TWO_MINUTES)
    ELSE nodeData.hostname \in DOMAIN hostnameStatus

\* the liveness map decides for every snapshot
isOnlineByTracker(nodeData, t) == nodeData.hostname \in DOMAIN hostnameStatus

isOnline(nodeData, t) ==
    IF Has(nodeData, "timestamp")
    THEN DateAfter(nodeData.timestamp, t - TWO_MINUTES)
    ELSE FALSE

NodeView(nodeData, t) ==
    SpreadWith(RestWithout(nodeData, "sentry_secret"), "is_online", isOnline(nodeData, t))

----------------------------------------------------------------------------
(* Initial state: the module body has run (lines 13, 17, 213) *)

NoResp == [kind |-> "none"]
Idle == [pc |-> "idle"]
Empty == <<>>

Init ==
    /\ now = 0
    /\ files = Empty
    /\ landed = Empty
    /\ seen = {}
    /\ hostnameStatus = updateHostnameStatus(Empty, ServerHost, 0, 0)
    /\ inflight = {}
    /\ query = Idle
    /\ resp = NoResp
    /\ nsubmits = 0

\* an instant before the start of the run
Earlier == 0 - 1

\* the snapshot an earlier run of the collector stored for `data`
Kept(data) == SpreadWith(data, "server_received_at", Earlier)

\* the collector starts again on the DATA_DIR of an earlier run (line 17 leaves the
\* files there), which stored a snapshot for "a" and one for "b."
InitRestart ==
    /\ now = 0
    /\ files = [f \in {FilePath(HostA), FilePath(HostB1)} |->
                   JSONstringify(Kept([hostname |-> IF f = FilePath(HostA) THEN HostA ELSE HostB1,
                                       sentry_secret |-> "S", cpu |-> "x"]))]
    /\ landed = [f \in {FilePath(HostA), FilePath(HostB1)} |->
                    [hostname |-> IF f = FilePath(HostA) THEN HostA ELSE HostB1,
                     sentry_secret |-> "S", cpu |-> "x"]]
    /\ seen = {}
    /\ hostnameStatus = updateHostnameStatus(Empty, ServerHost, 0, 0)
    /\ inflight = {}
    /\ query = Idle
    /\ resp = NoResp
    /\ nsubmits = 0

\* time passes
Tick ==
    /\ now < MaxTime
    /\ now' = now + 1
    /\ resp' = NoResp
    /\ UNCHANGED <<files, landed, seen, hostnameStatus, inflight, query, nsubmits>>

----------------------------------------------------------------------------
(* POST /submit, lines 107-156 *)

SubmitResponse(status, body, data, alone) ==
    [kind |-> "submit", status |-> status, body |-> body, req |-> data,
     alone |-> alone]

\* req.json() throws on a body that is not JSON: the catch of line 149
SubmitMalformed ==
    /\ resp' = SubmitResponse(500, [error |-> "Invalid JSON or server error"],
                              [malformed |-> TRUE], TRUE)
    /\ UNCHANGED <<now, files, landed, seen, hostnameStatus, inflight, query, nsubmits>>

\* a check of presence only
SecretOkIfPresent(data) == ~NoSecret(data)

\* line 112
SecretOk(data) == ~NoSecret(data) /\ data.sentry_secret = SENTRY_SECRET

\* a check of presence only: the empty string passes
HostnameOkIfPresent(data) == Has(data, "hostname")

\* line 120
HostnameOk(data) == ~NoHost(data)

\* lines 109-137: from the parsed body to the suspension at `await Bun.write`
SubmitRecv(data) ==
    IF ~SecretOk(data)
    THEN /\ resp' = SubmitResponse(401, [error |-> "Invalid or missing sentry_secret"],
                                   data, TRUE)
         /\ UNCHANGED <<now, files, landed, seen, hostnameStatus, inflight, query, nsubmits>>
    ELSE IF ~HostnameOk(data)
    THEN /\ resp' = SubmitResponse(400, [error |-> "Missing required field: hostname"],
                                   data, TRUE)
         /\ UNCHANGED <<now, files, landed, seen, hostnameStatus, inflight, query, nsubmits>>
    ELSE /\ nsubmits < MaxSubmits
         /\ Cardinality(inflight) < MaxInflight
         /\ inflight' =
              {[r EXCEPT !.alone = FALSE] : r \in inflight} \cup
              {[id |-> nsubmits + 1, pc |-> "writing", data |-> data,
                nodeData |-> SpreadWith(data, "server_received_at", now),
                filepath |-> FilePath(data.hostname), alone |-> inflight = {}]}
         /\ nsubmits' = nsubmits + 1
         /\ resp' = NoResp
         /\ UNCHANGED <<now, files, landed, seen, hostnameStatus, query>>

\* a write that keeps the members of the old text the new text does not name
WriteFileMerging(fs, filepath, text) ==
    [f \in DOMAIN fs \cup {filepath} |->
        IF f # filepath THEN fs[f]
        ELSE IF f \in DOMAIN fs
             THEN text \cup {m \in fs[f] : m[1] \notin {n[1] : n \in text}}
             ELSE text]

\* Bun.write(filepath, text): the file holds the text, whatever it held
WriteFile(fs, filepath, text) ==
    [f \in DOMAIN fs \cup {filepath} |-> IF f = filepath THEN text ELSE fs[f]]

\* the running query, if there is one, has one more state of DATA_DIR behind it
Seeing(fs) == IF query = Idle THEN seen ELSE seen \cup {fs}

\* what the file holds after `text` is written from offset 0 over `old`: the bytes
\* of a longer `old` stay behind the end of `text`
Overwrite(old, text) ==
    IF TextLen(old) > TextLen(text)
    THEN text \cup {Leftover(TextLen(old) - TextLen(text))}
    ELSE text

\* Bun.write opens the file: it is created if it was not there, and emptied if it was
WriteOpen(r) ==
    /\ r.pc = "writing"
    /\ files' = WriteFile(files, r.filepath, {})
    /\ seen' = Seeing(files')
    /\ inflight' = (inflight \ {r}) \cup {[r EXCEPT !.pc = "opened"]}
    /\ resp' = NoResp
    /\ UNCHANGED <<now, landed, hostnameStatus, query, nsubmits>>

\* the bytes of line 137 are written, at some moment between the open and the
\* resumption of the handler
WriteLand(r) ==
    /\ r.pc = "opened"
    /\ files' = WriteFile(files, r.filepath,
                          Overwrite(files[r.filepath], JSONstringify(r.nodeData)))
    /\ landed' = [f \in DOMAIN landed \cup {r.filepath} |->
                     IF f = r.filepath THEN r.data ELSE landed[f]]
    /\ seen' = Seeing(files')
    /\ inflight' = (inflight \ {r}) \cup {[r EXCEPT !.pc = "written"]}
    /\ resp' = NoResp
    /\ UNCHANGED <<now, hostnameStatus, query, nsubmits>>

\* lines 140-147: the handler resumes after the await
SubmitResume(r) ==
    /\ r.pc = "written"
    /\ hostnameStatus' = updateHostnameStatus(hostnameStatus, r.data.hostname,
                                              r.nodeData.server_received_at, now)
    /\ resp' = SubmitResponse(200,
                  [status |-> "success", hostname |-> r.data.hostname,
                   stored_at |-> r.nodeData.server_received_at],
                  r.data, r.alone)
    /\ inflight' = inflight \ {r}
    /\ UNCHANGED <<now, files, landed, seen, query, nsubmits>>

----------------------------------------------------------------------------
(* GET /nodes, lines 159-205 *)

\* the orders in which Bun.Glob.scan may yield the files of DATA_DIR
Orderings(S) ==
    {o \in [1..Cardinality(S) -> S] : \A i, j \in 1..Cardinality(S) : o[i] = o[j] => i = j}

\* the catch of lines 200-204
NodesError ==
    [kind |-> "nodes", status |-> 500, body |-> [error |-> "Server error"]]

NodesResponse(nodes, srcs, during, at) ==
    [kind |-> "nodes", status |-> 200,
     body |-> [nodes |-> nodes, count |-> Len(nodes)],
     srcs |-> srcs, during |-> during, at |-> at]

\* a scan that redraws the console the way the sweep does
QueryScanRedrawing ==
    /\ query = Idle
    /\ hostnameStatus' = updateHostnameStatus(hostnameStatus, ServerHost, now, now)
    /\ \E o \in Orderings(DOMAIN files) :
         IF o = <<>>
         THEN /\ resp' = NodesResponse(<<>>, <<>>, {files}, now)
              /\ query' = Idle
              /\ seen' = {}
         ELSE /\ resp' = NoResp
              /\ query' = [pc |-> "reading", files |-> o, nodes |-> <<>>,
                           srcs |-> <<>>, now |-> now]
              /\ seen' = {files}
    /\ UNCHANGED <<now, files, landed, inflight, nsubmits>>

\* lines 161-167: the scan has listed the files; `now` is taken
QueryScan ==
    /\ query = Idle
    /\ \E o \in Orderings(DOMAIN files) :
         IF o = <<>>
         THEN /\ resp' = NodesResponse(<<>>, <<>>, {files}, now)
              /\ query' = Idle
              /\ seen' = {}
         ELSE /\ resp' = NoResp
              /\ query' = [pc |-> "reading", files |-> o, nodes |-> <<>>,
                           srcs |-> <<>>, now |-> now]
              /\ seen' = {files}
    /\ UNCHANGED <<now, files, landed, hostnameStatus, inflight, nsubmits>>

\* lines 169-193, one turn of the loop; after the last one, lines 195-199
QueryRead ==
    /\ query.pc = "reading"
    /\ LET filename == Head(query.files)
           nodeData == JSONparse(files[filename])
           nodes == Append(query.nodes,
                           [filename |-> filename, data |-> NodeView(nodeData, query.now)])
           srcs == Append(query.srcs, landed[filename])
       IN IF ParseThrows(files[filename])
          THEN /\ resp' = NodesError
               /\ query' = Idle
               /\ seen' = {}
          ELSE IF Len(query.files) = 1
          THEN /\ resp' = NodesResponse(nodes, srcs, seen, query.now)
               /\ query' = Idle
               /\ seen' = {}
          ELSE /\ resp' = NoResp
               /\ query' = [query EXCEPT !.files = Tail(query.files),
                                         !.nodes = nodes, !.srcs = srcs]
               /\ seen' = seen
    /\ UNCHANGED <<now, files, landed, hostnameStatus, inflight, nsubmits>>

----------------------------------------------------------------------------
(* The periodic cleanup, lines 216-231 *)

Sweep(hs, t) ==
    LET kept == Cleanup(hs, t)
        hasChanges == DOMAIN kept # DOMAIN hs
    IN IF hasChanges THEN updateHostnameStatus(kept, ServerHost, t, t) ELSE kept

SweepTimer ==
    /\ hostnameStatus' = Sweep(hostnameStatus, now)
    /\ resp' = NoResp
    /\ UNCHANGED <<now, files, landed, seen, inflight, query, nsubmits>>

----------------------------------------------------------------------------

(* The program under several workloads.  The handlers are the same; what differs is
   which requests the clients send, and for how long. *)

\* one hostname, two different bodies
Next ==
    \/ Tick
    \/ \E data \in SameHost : SubmitRecv(data)
    \/ \E r \in inflight : WriteOpen(r)
    \/ \E r \in inflight : WriteLand(r)
    \/ \E r \in inflight : SubmitResume(r)
    \/ QueryScan
    \/ QueryRead
    \/ SweepTimer

Spec == Init /\ [][Next]_vars

\* the same requests, in a run too short for a record to go stale
NextShort ==
    \/ (now < MaxShort /\ Tick)
    \/ \E data \in SameHost : SubmitRecv(data)
    \/ \E r \in inflight : WriteOpen(r)
    \/ \E r \in inflight : WriteLand(r)
    \/ \E r \in inflight : SubmitResume(r)
    \/ QueryScan
    \/ QueryRead
    \/ SweepTimer

SpecShort == Init /\ [][NextShort]_vars

\* several hostnames, on a DATA_DIR that holds snapshots already, in a short run
NextHosts ==
    \/ (now < MaxShort /\ Tick)
    \/ \E data \in Hosts : SubmitRecv(data)
    \/ \E r \in inflight : WriteOpen(r)
    \/ \E r \in inflight : WriteLand(r)
    \/ \E r \in inflight : SubmitResume(r)
    \/ QueryScan
    \/ QueryRead
    \/ SweepTimer

SpecHosts == InitRestart /\ [][NextHosts]_vars

\* few submissions, one of them of an agent with a clock far ahead
NextSkew ==
    \/ Tick
    \/ (nsubmits < MaxValid /\ \E data \in Skewed : SubmitRecv(data))
    \/ \E r \in inflight : WriteOpen(r)
    \/ \E r \in inflight : WriteLand(r)
    \/ \E r \in inflight : SubmitResume(r)
    \/ QueryScan
    \/ QueryRead
    \/ SweepTimer

SpecSkew == Init /\ [][NextSkew]_vars

\* the same workload; setInterval (line 216) fires the sweep again and again
SpecFair == Init /\ [][NextSkew]_vars /\ WF_vars(SweepTimer)

\* requests that fail validation, next to one that passes
NextAuth ==
    \/ Tick
    \/ SubmitMalformed
    \/ \E data \in BadSecret \cup NoHostname : SubmitRecv(data)
    \/ (nsubmits < MaxValid /\ \E data \in Valid : SubmitRecv(data))
    \/ \E r \in inflight : WriteOpen(r)
    \/ \E r \in inflight : WriteLand(r)
    \/ \E r \in inflight : SubmitResume(r)
    \/ QueryScan
    \/ QueryRead
    \/ SweepTimer

SpecAuth == Init /\ [][NextAuth]_vars

----------------------------------------------------------------------------
(* What the claims say, in the vocabulary of the requests and responses *)

IsPayload(req) == req \in Requests \cup SameHost \cup Hosts \cup Skewed

SecretIsRight(req) == "sentry_secret" \in DOMAIN req /\ req.sentry_secret = SENTRY_SECRET

HostnameIsMissing(req) == "hostname" \notin DOMAIN req \/ Len(req.hostname) = 0

Answered(r, status) == r.kind = "submit" /\ r.status = status

StoreAndLivenessUnchanged == files' = files /\ hostnameStatus' = hostnameStatus

Stored(filepath) == JSONparse(files[filepath])

Listing == resp.body.nodes

\* the answer of the last step is a listing
Listed == resp.kind = "nodes" /\ resp.status = 200

----------------------------------------------------------------------------

\* C1: a POST /submit whose sentry_secret is absent or is not the configured secret
\* is answered 401, with or without a hostname, and the step that answers it leaves
\* the snapshot store and hostnameStatus as they were.
C1_BadSecretIs401AndChangesNothing ==
    [][(resp'.kind = "submit" /\ IsPayload(resp'.req) /\ ~SecretIsRight(resp'.req))
         => (resp'.status = 401 /\ StoreAndLivenessUnchanged)]_vars

\* a 401 was given to a request without hostname while a snapshot and its liveness
\* record existed
C1_Witness ==
    /\ Answered(resp, 401)
    /\ "hostname" \notin DOMAIN resp.req
    /\ files # Empty
    /\ HostA \in DOMAIN hostnameStatus

\* C2: a POST /submit with the right secret and a hostname that is absent or empty
\* is answered 400, and the step that answers it leaves the snapshot store and
\* hostnameStatus as they were.
C2_MissingHostnameIs400AndChangesNothing ==
    [][(resp'.kind = "submit" /\ IsPayload(resp'.req) /\ SecretIsRight(resp'.req)
          /\ HostnameIsMissing(resp'.req))
         => (resp'.status = 400 /\ StoreAndLivenessUnchanged)]_vars

\* a 400 was given to a request with an empty hostname while a snapshot existed
C2_Witness ==
    /\ Answered(resp, 400)
    /\ "hostname" \in DOMAIN resp.req
    /\ files # Empty
    /\ HostA \in DOMAIN hostnameStatus

\* C3: when a submission that overlapped no other submission is acknowledged, the
\* snapshot stored for its hostname has exactly the fields of its body, with the
\* values of its body, and the server_received_at of the acknowledgment: no field
\* of an earlier snapshot is left.
C3_LastWriteWins ==
    (Answered(resp, 200) /\ resp.alone) =>
        LET filepath == FilePath(resp.req.hostname)
        IN /\ filepath \in DOMAIN files
           /\ DOMAIN Stored(filepath) = DOMAIN resp.req \cup {"server_received_at"}
           /\ \A k \in DOMAIN resp.req \ {"server_received_at"} :
                 Stored(filepath)[k] = resp.req[k]
           /\ Stored(filepath).server_received_at = resp.body.stored_at

\* the second of two submissions that ran one after the other was acknowledged,
\* and its body has not the cpu field of the other body
C3_Witness ==
    /\ Answered(resp, 200)
    /\ resp.alone
    /\ nsubmits = 2
    /\ inflight = {}
    /\ "cpu" \notin DOMAIN resp.req

\* C4: no entry of a GET /nodes listing has a sentry_secret field.
C4_NoSecretInListing ==
    Listed =>
        \A i \in 1..Len(Listing) : "sentry_secret" \notin DOMAIN Listing[i].data

\* a listing with an entry whose file holds the secret
C4_Witness ==
    /\ Listed
    /\ Len(Listing) > 0
    /\ \E f \in DOMAIN files : <<"sentry_secret", SENTRY_SECRET>> \in files[f]

\* the request body whose text the i-th entry of the listing was read from
Source(i) == resp.srcs[i]

CollectorFields == {"server_received_at", "is_online"}

\* C5 as stated: every entry of a GET /nodes listing has every field of the
\* submitted body it was stored from, other than sentry_secret, with the body's
\* value, and an is_online boolean.
C5_RoundTripOfEveryField ==
    Listed =>
        \A i \in 1..Len(Listing) :
            /\ \A k \in DOMAIN Source(i) \ {"sentry_secret"} :
                  k \in DOMAIN Listing[i].data /\ Listing[i].data[k] = Source(i)[k]
            /\ "is_online" \in DOMAIN Listing[i].data
            /\ Listing[i].data.is_online \in BOOLEAN

\* C5, amended: every entry of a GET /nodes listing has every field of the submitted
\* body it was stored from, other than sentry_secret, server_received_at and
\* is_online, with the body's value; it has a server_received_at and an is_online
\* boolean, both set by the collector.
C5_RoundTripOfAgentFields ==
    Listed =>
        \A i \in 1..Len(Listing) :
            /\ \A k \in DOMAIN Source(i) \ ({"sentry_secret"} \cup CollectorFields) :
                  k \in DOMAIN Listing[i].data /\ Listing[i].data[k] = Source(i)[k]
            /\ CollectorFields \subseteq DOMAIN Listing[i].data
            /\ Listing[i].data.is_online \in BOOLEAN

\* a listing of a snapshot whose body named server_received_at and is_online itself
C5_Witness ==
    /\ Listed
    /\ \E i \in 1..Len(Listing) :
          /\ CollectorFields \subseteq DOMAIN Source(i)
          /\ Listing[i].data.gpu = "g"

\* the liveness map's verdict on a hostname: it holds a record that says online
TrackerOnline(h) == h \in DOMAIN hostnameStatus /\ hostnameStatus[h].status = "online"

\* C6: an entry of a GET /nodes listing whose snapshot has no agent timestamp has
\* the liveness map's verdict for its hostname as is_online.
C6_OnlineFollowsTracker ==
    Listed =>
        \A i \in 1..Len(Listing) :
            "timestamp" \notin DOMAIN Listing[i].data =>
                Listing[i].data.is_online = TrackerOnline(Listing[i].data.hostname)

\* the hostnames some request has been stored for
Submitted == {landed[f].hostname : f \in DOMAIN landed}

\* C7: a hostname is online in the liveness map only while no more than the timeout
\* has passed since its lastUpdate, and only if it was submitted.
C7_OnlineOnlyWithinTimeoutOfASubmission ==
    \A h \in DOMAIN hostnameStatus :
        /\ now - hostnameStatus[h].lastUpdate <= HOSTNAME_TIMEOUT
        /\ h \in Submitted

\* C8: a run of the periodic sweep at time T removes exactly the records whose
\* lastUpdate is older than T - timeout and leaves the others as they were.
C8_SweepRemovesExactlyTheStale ==
    [][SweepTimer =>
         /\ DOMAIN hostnameStatus' =
               {h \in DOMAIN hostnameStatus :
                   ~(hostnameStatus[h].lastUpdate < now - HOSTNAME_TIMEOUT)}
         /\ \A h \in DOMAIN hostnameStatus' : hostnameStatus'[h] = hostnameStatus[h]]_vars

\* C9: every hostname with a record in the liveness map has a snapshot in the store.
C9_LivenessRecordHasSnapshot ==
    \A h \in DOMAIN hostnameStatus : FilePath(h) \in DOMAIN files

\* C10: the server_received_at of a stored snapshot never decreases.
C10_ReceivedAtNeverDecreases ==
    [][\A f \in DOMAIN files :
          (~ParseThrows(files[f]) /\ f \in DOMAIN files' /\ ~ParseThrows(files'[f])) =>
              JSONparse(files'[f]).server_received_at >= JSONparse(files[f]).server_received_at]_vars

\* the text is the whole snapshot of the request body `data`
WholeSnapshotOf(text, data) ==
    /\ ~ParseThrows(text)
    /\ RestWithout(JSONparse(text), "server_received_at") =
          RestWithout(data, "server_received_at")
    /\ Has(JSONparse(text), "server_received_at")

\* two handlers with different bodies for one file are suspended, or one that
\* overlapped another has just been acknowledged
Overlapping ==
    \/ \E r1, r2 \in inflight : r1.data # r2.data /\ r1.filepath = r2.filepath
    \/ (Answered(resp, 200) /\ ~resp.alone)

\* C11: while two accepted submissions with different bodies for one hostname
\* overlap, and after they complete, the file of the hostname, once it exists,
\* holds the whole snapshot of one of the two bodies, never a part or a mix.
C11_StoredIsOneWholePayload ==
    Overlapping =>
        \A f \in DOMAIN files : \E data \in SameHost : WholeSnapshotOf(files[f], data)

\* the entry of a listing is the snapshot that the text holds, as GET /nodes shows it
EntryOf(entry, text) ==
    /\ ~ParseThrows(text)
    /\ RestWithout(entry, "is_online") =
          RestWithout(RestWithout(JSONparse(text), "sentry_secret"), "is_online")

\* C12: for every listing that GET /nodes answers with there is an instant between
\* the scan and the answer at which DATA_DIR held exactly the listed snapshots: the
\* listed files and no other, each with the listed content.
C12_ListingIsOneInstantOfTheStore ==
    Listed =>
        \E fs \in resp.during :
            /\ DOMAIN fs = {Listing[i].filename : i \in 1..Len(Listing)}
            /\ \A i \in 1..Len(Listing) : EntryOf(Listing[i].data, fs[Listing[i].filename])

\* the request body was not JSON
IsMalformed(req) == "malformed" \in DOMAIN req

\* C13: a POST /submit whose body is not well-formed JSON is answered 400, not 401
\* and not 500, and the step that answers it leaves the snapshot store and
\* hostnameStatus as they were.
C13_MalformedBodyIs400AndChangesNothing ==
    [][(resp'.kind = "submit" /\ IsMalformed(resp'.req))
         => (resp'.status = 400 /\ StoreAndLivenessUnchanged)]_vars

\* the i-th entry of the listing, and its agent timestamp
Entry(i) == Listing[i].data

HasTimestamp(entry) == "timestamp" \in DOMAIN entry

\* the agent timestamp is later, or earlier, than two minutes before the instant
LaterThanWindow(entry, t) == entry.timestamp[1] = "iso" /\ entry.timestamp[2] > t - TWO_MINUTES
EarlierThanWindow(entry, t) == entry.timestamp[1] = "iso" /\ entry.timestamp[2] < t - TWO_MINUTES

\* the files DATA_DIR held during the whole request
HeldThroughout == {f \in DOMAIN landed : \A fs \in resp.during : f \in DOMAIN fs}

\* every file that was written is in DATA_DIR, and the listing has every file that
\* DATA_DIR held during the request
ListedForGood ==
    /\ DOMAIN landed \subseteq DOMAIN files
    /\ Listed => \A f \in HeldThroughout : \E i \in 1..Len(Listing) : Listing[i].filename = f

C16_OnlineByAgentTimestampOnly ==
    Listed =>
        \A i \in 1..Len(Listing) :
            HasTimestamp(Entry(i)) =>
                /\ LaterThanWindow(Entry(i), resp.at) => Entry(i).is_online = TRUE
                /\ EarlierThanWindow(Entry(i), resp.at) => Entry(i).is_online = FALSE

\* a snapshot with an old agent timestamp is listed offline while hostnameStatus
\* has its hostname online
C16_Witness ==
    /\ Listed
    /\ \E i \in 1..Len(Listing) :
          /\ HasTimestamp(Entry(i))
          /\ EarlierThanWindow(Entry(i), resp.at)
          /\ TrackerOnline(Entry(i).hostname)
          /\ Entry(i).is_online = FALSE

\* the step is one of GET /nodes
QueryStep == query' # query \/ resp'.kind = "nodes"

\* C17: a step of GET /nodes leaves the snapshot store and hostnameStatus as they
\* were.
C17_QueryChangesNothing ==
    [][QueryStep => StoreAndLivenessUnchanged]_vars

\* a listing of a stored snapshot was answered while hostnameStatus had records of
\* submitted hostnames and a submission was suspended
C17_Witness ==
    /\ Listed
    /\ Len(Listing) > 0
    /\ HostA \in DOMAIN hostnameStatus
    /\ inflight # {}
    /\ now > 0

\* the hostnames that can have a liveness record
Tracked == {ServerHost} \cup {data.hostname : data \in Skewed}

\* hostnameStatus has a record of h that a cleanup at this instant would remove
StaleRecord(h) == h \in DOMAIN hostnameStatus /\ Stale(hostnameStatus[h], now)

\* a submission for h has just been acknowledged
AcceptedFor(r, h) == Answered(r, 200) /\ r.req.hostname = h

\* C15: every firing of the sweep timer leaves the records that are stale at that
\* instant absent from hostnameStatus, so that with the timer firing fairly a record
\* that gets no further submission is eventually absent; and a hostname that is
\* absent stays absent until a submission for it is accepted.
C15_StaleRecordsGoAndStayAway ==
    [][/\ SweepTimer =>
             \A h \in Tracked : StaleRecord(h) => h \notin DOMAIN hostnameStatus'
       /\ \A h \in Tracked :
             (h \notin DOMAIN hostnameStatus /\ h \in DOMAIN hostnameStatus')
                 => AcceptedFor(resp', h)]_vars

\* hostnameStatus has a record of h whose lastUpdate is the instant
TouchedAt(h, at) == h \in DOMAIN hostnameStatus /\ hostnameStatus[h].lastUpdate = at

\* a submission that overlapped no other has its server_received_at in the file
StoredAt(r, at) ==
    r.alone => Stored(FilePath(r.req.hostname)).server_received_at = at

Writing == {r \in inflight : r \notin inflight' /\ r.pc \in {"writing", "opened"}}

\* C19: the stored snapshot of a hostname is changed only by the write of a
\* submission for that hostname: a submission for another hostname, be it one that
\* differs only in characters outside [a-zA-Z0-9-], leaves it as it was.
C19_OnlyOwnSnapshotChanges ==
    [][\A f \in DOMAIN files :
          (~ParseThrows(files[f]) /\ files'[f] # files[f]) =>
              \A r \in Writing : r.data.hostname = Stored(f).hostname]_vars

\* C20: whenever no submission is suspended, every hostname that has a liveness
\* record and a stored snapshot has the snapshot's server_received_at as the
\* lastUpdate of the record.
C20_TrackerAgreesWithStoreAtRest ==
    inflight = {} =>
        \A h \in DOMAIN hostnameStatus :
            (FilePath(h) \in DOMAIN files /\ ~ParseThrows(files[FilePath(h)])
               /\ Stored(FilePath(h)).hostname = h)
              => hostnameStatus[h].lastUpdate = Stored(FilePath(h)).server_received_at

====
